---- MODULE Spec2Model ----
(***************************************************************************)
(* C-band helper (src/app.py): grid arithmetic, unit autodetection and the *)
(* two band calculators.                                                   *)
(*                                                                         *)
(* Number representation.  The program rounds and snaps with               *)
(* decimal.Decimal and passes the results on as floats whose str() is the  *)
(* decimal again, so every quantity it returns is an exact decimal.  The   *)
(* model keeps them as scaled integers:                                    *)
(*   - a frequency is an integer number of MHz (1 THz = 10^6 MHz), so the  *)
(*     12.5 GHz step is 12500, the 6.25 GHz step is 6250, half a 6.25 GHz  *)
(*     step (3125) is representable, and 5 fractional THz digits are the   *)
(*     multiples of 10;                                                    *)
(*   - a wavelength read from text or from the table is an integer number  *)
(*     of 10^-6 nm;                                                        *)
(*   - a wavelength that is returned (5 fractional digits) is a record     *)
(*     [neg, int, frac] with frac in 0..99999, because c / f is large for  *)
(*     a small f.                                                          *)
(* The float operations whose binary rounding shows in a result, the       *)
(* division 299_792.458 / x and the distance abs(t - x) of the table       *)
(* lookup, are computed on IEEE doubles (section "binary doubles").        *)
(* A text is a str: a sequence of characters, each character its Unicode   *)
(* code point.  Text(<<"n", "m">>) writes the text of printable ASCII      *)
(* characters.                                                             *)
(***************************************************************************)
EXTENDS Integers, Sequences, FiniteSets, TLC

VARIABLES nm2thz, loaded, req, resp, sx, sstep, sy

vars == <<nm2thz, loaded, req, resp, sx, sstep, sy>>

\* ---------------------------------------------------------------- bounds
\* Longest text enumerated over Alphabet.
MaxLen == 3
\* Most lines in one data file.
MaxRows == 1
\* by-start inputs: multiples of StartGrain MHz up to this index either side.
MaxStartIdx == 40
\* Largest magnitude (THz or nm) of a number read from a text.
MaxMag == 2000
\* Smallest non-zero wavelength magnitude (nm) converted by the formula.
MinNm == 150
\* Largest divisor handed to the long division.
MaxDen == 200000000
\* snap is applied to every value of -MaxSnap..MaxSnap MHz.
MaxSnap == 19000

\* ------------------------------------------------------------- constants
STEP_12_5 == 12500
STEP_6_25 == 6250

Abs(n) == IF n < 0 THEN -n ELSE n

Sign(n) == IF n < 0 THEN -1 ELSE 1

\* Decimal.quantize(Decimal("1"), ROUND_HALF_UP) of n / d, d > 0: the nearest
\* integer, a tie going away from zero.
RoundHalfUp(n, d) ==
    LET a == Abs(n)
        k == a \div d
        r == a % d
    IN Sign(n) * (IF r >= d - r THEN k + 1 ELSE k)

\* q(x, 5): x rounded half-up to 5 fractional THz digits, i.e. to 10 MHz.
q(x) == RoundHalfUp(x, 10) * 10

\* snap multiplying the rounded quotient by the 12.5 GHz step whatever the
\* step asked for.
snap_wrong_step(value_thz, step) == RoundHalfUp(value_thz, step) * STEP_12_5

snap(value_thz, step) == RoundHalfUp(value_thz, step) * step

\* Decimal(slices * 12.5) / Decimal(1000) THz = slices * 12500 MHz.
width_thz(slices) == slices * 12500

\* ------------------------------------------------- lookup table (nm, THz)
\* A line of a data file: a pair <<nm, thz>> when the line matches
\* "<number> nm / <number> thz" (the pattern has no sign, so both numbers
\* are >= 0), or Junk when it does not.  nm in 10^-6 nm, thz in MHz.
Junk == <<>>

LinePool ==
    { <<1550100000, 193400000>>, <<1550300000, 193300000>>,
      <<1549000000, 193414000>>, Junk }

\* The *.txt files data/ may hold, in the order sorted() gives their paths
\* (upper case sorts first).
SortedNames == << "Wavelength_extra.txt", "itu_wavelengths.txt", "notes.txt" >>

\* "wavelength" in p.name.lower()
NameHasWavelength(name) == name \in {"Wavelength_extra.txt", "itu_wavelengths.txt"}

RECURSIVE SeqsUpTo(_, _)
SeqsUpTo(S, n) ==
    IF n = 0 THEN { <<>> }
    ELSE LET shorter == SeqsUpTo(S, n - 1)
         IN shorter \cup { Append(s, x) : s \in { t \in shorter : Len(t) = n - 1 }, x \in S }

\* What a file may be: absent, or present with a sequence of lines.
Absent == [present |-> FALSE, lines |-> <<>>]

FileStates ==
    { Absent } \cup { [present |-> TRUE, lines |-> l] : l \in SeqsUpTo(LinePool, MaxRows) }

\* The data directory at startup: missing, or a content for every file name.
DataDirs ==
    { [exists |-> FALSE, files |-> [n \in 1..Len(SortedNames) |-> Absent]] } \cup
    { [exists |-> TRUE, files |-> f] : f \in [1..Len(SortedNames) -> FileStates] }

\* The pairs of the matching lines of one file, in line order.
RECURSIVE MatchedPairs(_)
MatchedPairs(lines) ==
    IF lines = <<>> THEN <<>>
    ELSE IF Head(lines) = Junk THEN MatchedPairs(Tail(lines))
    ELSE << Head(lines) >> \o MatchedPairs(Tail(lines))

\* The loop over sorted(DATA_DIR.glob("*.txt")) from file i on: files whose
\* name lacks "wavelength" are skipped, the others append their pairs.
RECURSIVE ReadFiles(_, _)
ReadFiles(dir, i) ==
    IF i > Len(SortedNames) THEN <<>>
    ELSE IF ~dir.files[i].present \/ ~NameHasWavelength(SortedNames[i])
         THEN ReadFiles(dir, i + 1)
         ELSE MatchedPairs(dir.files[i].lines) \o ReadFiles(dir, i + 1)

\* list.sort(key=lambda t: t[0]): a stable sort, here by insertion; a row
\* goes after every row whose wavelength is not larger.
RECURSIVE InsertByNm(_, _)
InsertByNm(sorted, row) ==
    IF sorted = <<>> THEN << row >>
    ELSE IF Head(sorted)[1] <= row[1]
         THEN << Head(sorted) >> \o InsertByNm(Tail(sorted), row)
         ELSE << row >> \o sorted

RECURSIVE SortByNm(_)
SortByNm(rows) ==
    IF rows = <<>> THEN <<>>
    ELSE InsertByNm(SortByNm(SubSeq(rows, 1, Len(rows) - 1)), rows[Len(rows)])

\* The rows kept in file order (what a loader that forgets the sort builds).
try_load_mapping_unsorted(dir) ==
    IF ~dir.exists THEN <<>> ELSE ReadFiles(dir, 1)

try_load_mapping(dir) ==
    IF ~dir.exists THEN <<>> ELSE SortByNm(ReadFiles(dir, 1))

\* ------------------------------------------------------ binary doubles
\* The floats of the code are IEEE doubles.  A natural number too large
\* for one machine word is a sequence of limbs in base 10^4, the least
\* significant first, without leading zero limbs; 0 is <<>>.
\* An operator of this section takes each argument through a one-element
\* set, { ... : a \in { x } }, so that the argument is computed once
\* however often the operator reads it.
Limb == 10^4

Only(S) == CHOOSE x \in S : TRUE

RECURSIVE BigOf(_)
BigOf(x) ==
    Only({ IF n = 0 THEN <<>> ELSE << n % Limb >> \o BigOf(n \div Limb) : n \in { x } })

RECURSIVE Norm(_)
Norm(x) ==
    Only({ IF a # <<>> /\ a[Len(a)] = 0 THEN Norm(SubSeq(a, 1, Len(a) - 1)) ELSE a
           : a \in { x } })

LimbAt(a, i) == IF i <= Len(a) THEN a[i] ELSE 0

\* Limbs i.. of a + b + carry.
RECURSIVE AddFrom(_, _, _, _)
AddFrom(a, b, i, c) ==
    IF i > Len(a) /\ i > Len(b) THEN BigOf(c)
    ELSE Only({ << sum % Limb >> \o AddFrom(a, b, i + 1, sum \div Limb)
                : sum \in { LimbAt(a, i) + LimbAt(b, i) + c } })

AddB(x, y) == Only({ AddFrom(a, b, 1, 0) : a \in { x }, b \in { y } })

\* Limbs i.. of a - b - borrow, for a >= b.
RECURSIVE SubFrom(_, _, _, _)
SubFrom(a, b, i, c) ==
    IF i > Len(a) THEN <<>>
    ELSE Only({ << (dif + Limb) % Limb >> \o SubFrom(a, b, i + 1, IF dif < 0 THEN 1 ELSE 0)
                : dif \in { a[i] - LimbAt(b, i) - c } })

SubB(x, y) == Only({ Norm(SubFrom(a, b, 1, 0)) : a \in { x }, b \in { y } })

\* -1, 0 or 1 as a <, =, > b, looking from limb i down.
RECURSIVE CmpFrom(_, _, _)
CmpFrom(a, b, i) ==
    IF i = 0 THEN 0
    ELSE IF a[i] < b[i] THEN -1
    ELSE IF a[i] > b[i] THEN 1
    ELSE CmpFrom(a, b, i - 1)

CmpB(x, y) ==
    Only({ IF Len(a) < Len(b) THEN -1
           ELSE IF Len(a) > Len(b) THEN 1
           ELSE CmpFrom(a, b, Len(a))
           : a \in { x }, b \in { y } })

\* Limbs i.. of a * m + carry, for 0 <= m <= 10^5.
RECURSIVE MulFrom(_, _, _, _)
MulFrom(a, m, i, c) ==
    IF i > Len(a) THEN BigOf(c)
    ELSE Only({ << prod % Limb >> \o MulFrom(a, m, i + 1, prod \div Limb)
                : prod \in { a[i] * m + c } })

MulSmall(x, y) == Only({ Norm(MulFrom(a, m, 1, 0)) : a \in { x }, m \in { y } })

RECURSIVE MulB(_, _)
MulB(x, y) ==
    Only({ IF a = <<>> \/ b = <<>> THEN <<>>
           ELSE AddB(MulSmall(a, Head(b)), Norm(<< 0 >> \o MulB(a, Tail(b))))
           : a \in { x }, b \in { y } })

\* a * 2^k, 13 bits at a time.
RECURSIVE ShiftL(_, _)
ShiftL(x, y) ==
    Only({ IF k > 13 THEN ShiftL(MulSmall(a, 2^13), k - 13) ELSE MulSmall(a, 2^k)
           : a \in { x }, k \in { y } })

\* << limbs i.. of a \div d, a % d >> for 0 < d <= 10^5.
RECURSIVE DivFrom(_, _, _)
DivFrom(a, d, i) ==
    IF i > Len(a) THEN << <<>>, 0 >>
    ELSE Only({ Only({ << << cur \div d >> \o hi[1], cur % d >>
                       : cur \in { hi[2] * Limb + a[i] } })
                : hi \in { DivFrom(a, d, i + 1) } })

DivSmall(x, y) ==
    Only({ << Norm(qr[1]), qr[2] >> : qr \in { DivFrom(x, y, 1) } })

\* << a \div 10^6, a % 10^6 >>
DivMillion(x) ==
    Only({ Only({ << hi[1], hi[2] * 1000 + lo[2] >> : hi \in { DivSmall(lo[1], 1000) } })
           : lo \in { DivSmall(x, 1000) } })

\* a \div 2^k, 13 bits at a time.
RECURSIVE ShiftR(_, _)
ShiftR(x, y) ==
    Only({ IF k > 13 THEN ShiftR(DivSmall(a, 2^13)[1], k - 13) ELSE DivSmall(a, 2^k)[1]
           : a \in { x }, k \in { y } })

Odd(a) == a # <<>> /\ a[1] % 2 = 1

Pow2(k) == ShiftL(<< 1 >>, k)

\* A double is [m, s] and stands for m / 2^s; m has 53 bits when the double
\* comes from a literal or a text.
Double(m, s) == [m |-> m, s |-> s]

\* << x * 2^s, s >> for the largest s that keeps x * 2^s below ceiling,
\* found by trying the shifts j, j / 2, .., 1 on top of s.
RECURSIVE ScaleUp(_, _, _, _)
ScaleUp(x, s, j, ceiling) ==
    IF j = 0 THEN << x, s >>
    ELSE Only({ IF CmpB(a, ceiling) < 0
                THEN ScaleUp(a, s + j, j \div 2, ceiling)
                ELSE ScaleUp(x, s, j \div 2, ceiling)
                : a \in { ShiftL(x, j) } })

\* The mantissa m at scale s, renormalised when rounding took it to 2^53.
Renormalised(x, s) ==
    Only({ IF m = Pow2(53) THEN Double(Pow2(52), s - 1) ELSE Double(m, s) : m \in { x } })

\* The quotient and remainder qr of a division by 10^6 rounded to the
\* nearest integer, ties to even.
NearestEven(x) ==
    Only({ IF qr[2] > 500000 \/ (qr[2] = 500000 /\ Odd(qr[1]))
           THEN AddB(qr[1], << 1 >>) ELSE qr[1]
           : qr \in { x } })

\* float("<decimal>") and the reading of a decimal literal: the double
\* nearest to n / 10^6 (n a big natural below 2^52 * 10^6), ties to the
\* even mantissa.  n * 2^s is brought into 2^52 * 10^6 .. 2^53 * 10^6 and
\* divided by 10^6.
ToDouble(x) ==
    Only({ IF n = <<>> THEN Double(<<>>, 0)
           ELSE Only({ Renormalised(NearestEven(DivMillion(xs[1])), xs[2])
                       : xs \in { ScaleUp(n, 0, 64, MulSmall(MulSmall(Pow2(53), 1000), 1000)) } })
           : n \in { x } })

\* The literal 299_792.458 of lines 63 and 72 as the double it is read as.
C_DOUBLE == ToDouble(MulSmall(BigOf(299792458), 1000))

\* The middle between the double t and the double before it, as
\* << e, s >> for e / 2^s: (2m - 1) / 2^(s+1), or (4m - 1) / 2^(s+2) when
\* m = 2^52 and the doubles below t are twice as dense.
LowerEdge(x) ==
    Only({ IF t.m = Pow2(52)
           THEN << SubB(MulSmall(t.m, 4), << 1 >>), t.s + 2 >>
           ELSE << SubB(MulSmall(t.m, 2), << 1 >>), t.s + 1 >>
           : t \in { x } })

\* -1, 0 or 1 as m / 2^s <, =, > n / 2^r.
CmpScaled(m, s, n, r) ==
    Only({ CmpB(ShiftL(m, r - mn), ShiftL(n, s - mn)) : mn \in { IF s < r THEN s ELSE r } })

\* Whether the double quotient a / b (rounded to nearest, ties to even) is
\* at least the double t.  It is when the exact quotient of the two doubles
\* lies above the middle between t and the double before t, or on it with
\* the mantissa of t even.
QuotientAtLeast(x, y, z) ==
    Only({ Only({ cmp > 0 \/ (cmp = 0 /\ ~Odd(t.m))
                  : cmp \in { CmpScaled(a.m, a.s, MulB(edge[1], b.m), edge[2] + b.s) } })
           : a \in { x }, b \in { y }, t \in { z }, edge \in { LowerEdge(z) } })

\* How many bits m has beyond 53: the least k with m < 2^(53 + k), found
\* by adding j, j / 2, .., 1 to k while m >= 2^(53 + k + j - 1).
RECURSIVE Excess(_, _, _)
Excess(m, k, j) ==
    IF j = 0 THEN k
    ELSE IF CmpB(m, Pow2(52 + k + j)) >= 0 THEN Excess(m, k + j, j \div 2)
    ELSE Excess(m, k, j \div 2)

\* m / 2^k rounded to the nearest integer, ties to even, given quo = m \div 2^k.
RoundShift(m, k, y) ==
    Only({ Only({ IF half > 0 \/ (half = 0 /\ Odd(quo)) THEN AddB(quo, << 1 >>) ELSE quo
                  : half \in { CmpB(SubB(m, ShiftL(quo, k)), Pow2(k - 1)) } })
           : quo \in { y } })

\* The exact m / 2^s rounded to a double: to 53 bits, ties to even.
RoundDouble(x, s) ==
    Only({ Only({ IF k = 0 THEN Double(m, s) ELSE Double(RoundShift(m, k, ShiftR(m, k)), s - k)
                  : k \in { Excess(m, 0, 64) } })
           : m \in { x } })

\* u < v for doubles u, v >= 0.
DoubleLess(x, y) ==
    Only({ CmpScaled(u.m, u.s, v.m, v.s) < 0 : u \in { x }, v \in { y } })

\* ----------------------------------------------------------- conversion
\* abs(a - b) of the decimals as <<millions, rest>>: the difference of a
\* wavelength of the table and a negative input does not fit 32 bits.
\* a >= 0 (a table value).
Million == 10^6

AbsDiff(a, b) ==
    IF b >= 0
    THEN << Abs(a - b) \div Million, Abs(a - b) % Million >>
    ELSE LET lo == (a % Million) + ((-b) % Million)
         IN << (a \div Million) + ((-b) \div Million) + (lo \div Million), lo % Million >>

DistLess(d, e) == d[1] < e[1] \/ (d[1] = e[1] /\ d[2] < e[2])

\* |ma - mx|, or ma + mx when the input is negative.
Apart(neg, x, y) ==
    Only({ IF neg THEN AddB(ma, mx)
           ELSE IF CmpB(ma, mx) >= 0 THEN SubB(ma, mx) ELSE SubB(mx, ma)
           : ma \in { x }, mx \in { y } })

\* The float difference of the doubles da and dx (of |x|), in absolute
\* value: both at the scale s of the finer one, the exact result rounded.
DoubleDist(neg, x, y) ==
    Only({ Only({ RoundDouble(Apart(neg, ShiftL(da.m, s - da.s), ShiftL(dx.m, s - dx.s)), s)
                  : s \in { IF da.s > dx.s THEN da.s ELSE dx.s } })
           : da \in { x }, dx \in { y } })

\* abs(t[col] - x) as the code computes it: the doubles of the two
\* decimals (a >= 0 a table value, x the input, both in millionths),
\* their difference rounded to a double.
FloatDist(a, x) == DoubleDist(x < 0, ToDouble(BigOf(a)), ToDouble(BigOf(Abs(x))))

\* key(a) < key(b) for the key abs(t[col] - x) of min().  The keys are
\* doubles within 10^-11 of the decimal distances, which are millionths:
\* unequal decimal distances order the keys, equal ones leave the order to
\* the rounding of the doubles.
KeyLess(a, b, x) ==
    IF AbsDiff(a, x) # AbsDiff(b, x) THEN DistLess(AbsDiff(a, x), AbsDiff(b, x))
    ELSE a # b /\ DoubleLess(FloatDist(a, x), FloatDist(b, x))

\* min(_nm2thz, key=lambda t: abs(t[col] - x)): the first row with the
\* least key.
Nearest(table, col, x) ==
    LET less(i, j) == KeyLess(table[i][col], table[j][col], x)
        best == CHOOSE i \in 1..Len(table) :
                    \A j \in 1..Len(table) :
                        /\ ~less(j, i)
                        /\ (j < i => less(i, j))
    IN table[best]

\* Schoolbook division of the number written with `digits` (after the
\* remainder rem carried in) by den: <<quotient, remainder>>.
RECURSIVE LongDiv(_, _, _, _)
LongDiv(digits, den, quo, rem) ==
    IF digits = <<>> THEN << quo, rem >>
    ELSE LET cur == rem * 10 + Head(digits)
         IN LongDiv(Tail(digits), den, quo * 10 + (cur \div den), cur % den)

Zeros(n) == [i \in 1..n |-> 0]

\* x = n * 10^j with j as large as possible, j <= 6 (x > 0): <<n, j>>.
RECURSIVE StripZeros(_, _)
StripZeros(n, j) ==
    IF j < 6 /\ n % 10 = 0 THEN StripZeros(n \div 10, j + 1) ELSE << n, j >>

\* 299_792.458 / 0.00625 = 47966793.28, written as the digits of
\* 4796679328 (two of them fractional).
C_OVER_STEP_6_25 == << 4, 7, 9, 6, 6, 7, 9, 3, 2, 8 >>

\* 299_792.458 nm*THz as the digits of 299792458 (three fractional).
C_NM_THZ == << 2, 9, 9, 7, 9, 2, 4, 5, 8 >>

ZeroDivision(where) ==
    [raised |-> TRUE, error |-> "ZeroDivisionError", raised_in |-> where]

Returned(v) == [raised |-> FALSE, value |-> v]

\* Whether the quotient with remainder rem of a division by den is within
\* 4 / den of the tie g + 1/2.  The double 299_792.458 / x and its str()
\* are within 5 * 2^-53 of the exact quotient in relative terms, which is
\* less than 1.4 / den of a rounding unit in both divisions below: further
\* from the tie than that, the double rounds as the exact quotient does.
NearTie(rem, den) == Abs(2 * rem - den) <= 8

\* Whether str(299_792.458 / x), for the double of x millionths, is at
\* least the decimal tie / 10^6: str() of a double is the shortest decimal
\* that reads back as it, so it is when the double quotient is at least
\* the double nearest to the tie.
FloatQuotientAtLeast(x, tie) ==
    QuotientAtLeast(C_DOUBLE, ToDouble(BigOf(x)), ToDouble(tie))

\* 299_792.458 / nm snapped to the 6.25 GHz grid, in MHz, for nm # 0 in
\* 10^-6 nm: round_half_up(str(299_792.458 / nm) / 0.00625) * 6250.  With
\* |nm| = n * 10^(j-6) the exact quotient is 4796679328 * 10^(4-j) / n; the
\* tie above g steps is (2g + 1) * 0.003125 THz.
FormulaThzSnapped(nm) ==
    LET nj == StripZeros(Abs(nm), 0)
        n == nj[1]
        j == nj[2]
        num == C_OVER_STEP_6_25 \o Zeros(IF j < 4 THEN 4 - j ELSE 0)
        den == IF j > 4 THEN n * 10^(j - 4) ELSE n
        d == LongDiv(num, den, 0, 0)
        up == IF NearTie(d[2], den)
              THEN FloatQuotientAtLeast(Abs(nm), MulSmall(BigOf(2 * d[1] + 1), 3125))
              ELSE d[2] >= den - d[2]
        k == IF up THEN d[1] + 1 ELSE d[1]
    IN Sign(nm) * k * STEP_6_25

\* nm_to_thz returning the table's frequency as it is, without the snap.
nm_to_thz_unsnapped(table, nm) ==
    IF table # <<>>
    THEN Returned(q(Nearest(table, 1, nm)[2]))
    ELSE IF nm = 0 THEN ZeroDivision("nm_to_thz")
    ELSE Returned(q(FormulaThzSnapped(nm)))

\* nm_to_thz(nm): nm in 10^-6 nm, the result in MHz.
nm_to_thz(table, nm) ==
    IF table # <<>>
    THEN Returned(q(snap(Nearest(table, 1, nm)[2], STEP_6_25)))
    ELSE IF nm = 0 THEN ZeroDivision("nm_to_thz")
    ELSE Returned(q(FormulaThzSnapped(nm)))

\* A returned wavelength: 5 fractional digits.
Nm5(neg, int, frac) == [neg |-> neg, int |-> int, frac |-> frac]

\* Decimal(str(nm)).quantize(Decimal("1.00000"), ROUND_HALF_UP) of a table
\* wavelength (10^-6 nm).
QuantizeNm(nm) ==
    LET m == RoundHalfUp(nm, 10)
    IN Nm5(m < 0, Abs(m) \div 100000, Abs(m) % 100000)

\* str(299_792.458 / thz) rounded half-up to 5 fractional digits, for
\* thz # 0 in MHz and a multiple of 10 (every caller passes a value with 5
\* fractional THz digits).  The exact quotient is 299792458 * 10^2 /
\* (|thz| / 10) nm; the tie above ip.fp nm is ip + (10 fp + 5) / 10^6 nm.
FormulaNm(thz) ==
    LET den == Abs(thz) \div 10
        ip == LongDiv(C_NM_THZ \o Zeros(2), den, 0, 0)
        fp == LongDiv(Zeros(5), den, 0, ip[2])
        tie == AddB(MulSmall(MulSmall(BigOf(ip[1]), 1000), 1000), BigOf(10 * fp[1] + 5))
        up == IF NearTie(fp[2], den)
              THEN FloatQuotientAtLeast(Abs(thz), tie)
              ELSE fp[2] >= den - fp[2]
        frac == IF up THEN fp[1] + 1 ELSE fp[1]
    IN IF frac = 100000 THEN Nm5(thz < 0, ip[1] + 1, 0)
       ELSE Nm5(thz < 0, ip[1], frac)

\* thz_to_nm(thz): thz in MHz.
thz_to_nm(table, thz) ==
    IF table # <<>>
    THEN Returned(QuantizeNm(Nearest(table, 2, thz)[1]))
    ELSE IF thz = 0 THEN ZeroDivision("thz_to_nm")
    ELSE Returned(FormulaNm(thz))

\* ------------------------------------------------------ unit autodetect
\* The printable ASCII characters U+0020..U+005F and U+0061..U+007E, in
\* code point order.
Printable ==
    << " ", "!", "\"", "#", "$", "%", "&", "'", "(", ")", "*", "+",
       ",", "-", ".", "/", "0", "1", "2", "3", "4", "5", "6", "7",
       "8", "9", ":", ";", "<", "=", ">", "?", "@", "A", "B", "C",
       "D", "E", "F", "G", "H", "I", "J", "K", "L", "M", "N", "O",
       "P", "Q", "R", "S", "T", "U", "V", "W", "X", "Y", "Z", "[",
       "\\", "]", "^", "_", "a", "b", "c", "d", "e", "f", "g", "h",
       "i", "j", "k", "l", "m", "n", "o", "p", "q", "r", "s", "t",
       "u", "v", "w", "x", "y", "z", "{", "|", "}", "~" >>

\* ord(c) of a printable ASCII character.
Ord(c) ==
    LET i == CHOOSE i \in 1..Len(Printable) : Printable[i] = c
    IN  IF i <= 64 THEN 31 + i ELSE 32 + i

\* The str written with the printable ASCII characters s.
Text(s) == [i \in 1..Len(s) |-> Ord(s[i])]

\* The zeros of the decimal digits of Unicode 14 (unicodedata of the
\* interpreter, category Nd): each is followed by its digits 1 to 9.
DigitZeros ==
    { 48, 1632, 1776, 1984, 2406, 2534, 2662, 2790, 2918, 3046, 3174, 3302,
      3430, 3558, 3664, 3792, 3872, 4160, 4240, 6112, 6160, 6470, 6608,
      6784, 6800, 6992, 7088, 7232, 7248, 42528, 43216, 43264, 43472,
      43504, 43600, 44016, 65296, 66720, 68912, 69734, 69872, 69942, 70096,
      70384, 70736, 70864, 71248, 71360, 71472, 71904, 72016, 72784, 73040,
      73120, 92768, 92864, 93008, 120782, 120792, 120802, 120812, 120822,
      123200, 123632, 125264, 130032 }

\* \d of a str pattern: any Unicode decimal digit.  "0" is the only zero
\* below U+0080.
IsDigit(c) ==
    IF c < 128 THEN c \in 48..57 ELSE \E z \in DigitZeros : z <= c /\ c <= z + 9

\* The value float() gives the decimal digit c.
DigitVal(c) ==
    IF c < 128 THEN c - 48 ELSE c - (CHOOSE z \in DigitZeros : z <= c /\ c <= z + 9)

\* Whether character c matches the letter of the unit pattern under re.I,
\* letter being one of "n", "m", "t", "h", "z": the letter itself or its
\* ASCII capital; no character beyond ASCII case-folds to one of them.
MatchesLetter(c, letter) == c = letter \/ c = letter - 32

\* The characters str.strip() removes: those str.isspace() holds for.
IsSpace(c) ==
    \/ c \in 9..13 \/ c \in 28..32
    \/ c \in { 133, 160, 5760, 8232, 8233, 8239, 8287, 12288 }
    \/ c \in 8192..8202

\* str.strip()
RECURSIVE strip(_)
strip(s) ==
    IF s = <<>> THEN s
    ELSE IF IsSpace(Head(s)) THEN strip(Tail(s))
    ELSE IF IsSpace(s[Len(s)]) THEN strip(SubSeq(s, 1, Len(s) - 1))
    ELSE s

NoUnit == "none"

UnitNm == Text(<< "n", "m" >>)

UnitThz == Text(<< "t", "h", "z" >>)

\* Whether "nm" (resp. "thz"), in any case, starts at position i of raw.
NmAt(raw, i) ==
    /\ i + 1 <= Len(raw)
    /\ \A k \in 1..2 : MatchesLetter(raw[i + k - 1], UnitNm[k])

ThzAt(raw, i) ==
    /\ i + 2 <= Len(raw)
    /\ \A k \in 1..3 : MatchesLetter(raw[i + k - 1], UnitThz[k])

\* _unit_re.search(raw): the leftmost unit token, lower-cased, or NoUnit.
unit_hint(raw) ==
    LET hits == { i \in 1..Len(raw) : NmAt(raw, i) \/ ThzAt(raw, i) }
    IN IF hits = {} THEN NoUnit
       ELSE LET first == CHOOSE i \in hits : \A j \in hits : i <= j
            IN IF NmAt(raw, first) THEN "nm" ELSE "thz"

\* The longest run of digits of raw from position i on (i may be Len + 1).
RECURSIVE DigitRun(_, _)
DigitRun(raw, i) ==
    IF i <= Len(raw) /\ IsDigit(raw[i])
    THEN << raw[i] >> \o DigitRun(raw, i + 1)
    ELSE <<>>

\* The characters of [-+] and of [.,].
Signs == { Ord("-"), Ord("+") }

Separators == { Ord("."), Ord(",") }

\* Whether [-+]?\d+ can start at position i.
NumberAt(raw, i) ==
    \/ IsDigit(raw[i])
    \/ raw[i] \in Signs /\ i + 1 <= Len(raw) /\ IsDigit(raw[i + 1])

\* re.search(r"([-+]?\d+(?:[.,]\d+)?)", raw): the leftmost match, as its
\* sign, its integer digits and its fractional digits (empty without a
\* separator followed by a digit).
first_number(raw) ==
    LET hits == { i \in 1..Len(raw) : NumberAt(raw, i) }
    IN IF hits = {} THEN [found |-> FALSE, neg |-> FALSE, int |-> <<>>, frac |-> <<>>]
       ELSE LET first == CHOOSE i \in hits : \A j \in hits : i <= j
                signed == ~IsDigit(raw[first])
                from == IF signed THEN first + 1 ELSE first
                int == DigitRun(raw, from)
                sep == from + Len(int)
                frac == IF sep <= Len(raw) /\ raw[sep] \in Separators
                        THEN DigitRun(raw, sep + 1) ELSE <<>>
            IN [found |-> TRUE, neg |-> signed /\ raw[first] = Ord("-"),
                int |-> int, frac |-> frac]

\* The natural number a digit sequence writes.
RECURSIVE NatOf(_)
NatOf(ds) ==
    IF ds = <<>> THEN 0 ELSE NatOf(SubSeq(ds, 1, Len(ds) - 1)) * 10 + DigitVal(ds[Len(ds)])

\* float(m2.group(1).replace(",", ".")) in millionths: the model reads
\* numbers of at most 6 fractional digits.
Millionths(m2) ==
    (IF m2.neg THEN -1 ELSE 1)
      * (NatOf(m2.int) * Million + NatOf(m2.frac) * 10^(6 - Len(m2.frac)))

ValueError(where) == [raised |-> TRUE, error |-> "ValueError", raised_in |-> where]

\* What parse_center_any does with a text without a number, when it yields
\* a zero centre instead of raising.
no_number_silent_zero == Returned(0)

no_number == ValueError("parse_center_any")

\* The branch test with > in place of >=.
takes_nm_branch_strict(hint, val) == hint = "nm" \/ (hint = NoUnit /\ val > 1000 * Million)

\* The branch test of parse_center_any as written: the signed value.
takes_nm_branch(hint, val) == hint = "nm" \/ (hint = NoUnit /\ val >= 1000 * Million)

\* parse_center_any(s): the centre in MHz, or the exception raised.
parse_center_any(table, s) ==
    LET raw == strip(s)
        hint == unit_hint(raw)
        m2 == first_number(raw)
    IN IF ~m2.found THEN no_number
       ELSE LET val == Millionths(m2)
            IN IF takes_nm_branch(hint, val)
               THEN nm_to_thz(table, val)
               ELSE Returned(q(snap(val, STEP_6_25)))

\* ------------------------------------------------------ band calculators
\* The slice count taken as sent.
coerce_slices_identity(slices) == slices

\* slices = 6 if payload.slices != 7 else 7
coerce_slices(slices) == IF slices # 7 THEN 6 ELSE 7

Failed(exc) == [status |-> "error", error |-> exc.error, raised_in |-> exc.raised_in]

\* The JSON body of a successful calculation.  band, center_thz in MHz,
\* width_ghz in MHz too (12.5 * slices GHz = 12500 * slices MHz).
Band(slices, start, end, center, center_nm) ==
    [status |-> "ok", slices |-> slices, band |-> << q(start), q(end) >>,
     center_thz |-> q(center), center_nm |-> center_nm,
     width_ghz |-> 12500 * slices]

\* calc_center after the slice coercion and the parse: parsed is what
\* parse_center_any returned or raised.
BandAround(table, slices, parsed) ==
    IF parsed.raised THEN Failed(parsed)
    ELSE LET center_thz == parsed.value
             half == width_thz(slices) \div 2
             start == snap(center_thz - half, STEP_12_5)
             end == snap(center_thz + half, STEP_12_5)
             center_nm == thz_to_nm(table, center_thz)
         IN IF center_nm.raised THEN Failed(center_nm)
            ELSE Band(slices, start, end, center_thz, center_nm.value)

\* calc_center(payload): the response, or the exception that ends it.
CenterResponse(table, slices_in, value) ==
    LET slices == coerce_slices(slices_in)
        parsed == parse_center_any(table, value)
    IN BandAround(table, slices, parsed)

\* calc_from_start taking start + end, not its half, as the centre.
StartResponse_no_halving(table, slices_in, start_thz) ==
    LET slices == coerce_slices(slices_in)
        w == width_thz(slices)
        start == snap(start_thz, STEP_12_5)
        end == snap(start + w, STEP_12_5)
        center == snap(start + end, STEP_6_25)
        center_nm == thz_to_nm(table, center)
    IN IF center_nm.raised THEN Failed(center_nm)
       ELSE Band(slices, start, end, center, center_nm.value)

\* calc_from_start moving the start to the nearest frequency of the table
\* when there is one.
StartResponse_table_start(table, slices_in, start_thz) ==
    LET slices == coerce_slices(slices_in)
        w == width_thz(slices)
        start == snap(IF table # <<>> THEN Nearest(table, 2, start_thz)[2] ELSE start_thz,
                      STEP_12_5)
        end == snap(start + w, STEP_12_5)
        center == snap((start + end) \div 2, STEP_6_25)
        center_nm == thz_to_nm(table, center)
    IN IF center_nm.raised THEN Failed(center_nm)
       ELSE Band(slices, start, end, center, center_nm.value)

\* calc_from_start(payload): start_thz in MHz.
StartResponse(table, slices_in, start_thz) ==
    LET slices == coerce_slices(slices_in)
        w == width_thz(slices)
        start == snap(start_thz, STEP_12_5)
        end == snap(start + w, STEP_12_5)
        center == snap((start + end) \div 2, STEP_6_25)
        center_nm == thz_to_nm(table, center)
    IN IF center_nm.raised THEN Failed(center_nm)
       ELSE Band(slices, start, end, center, center_nm.value)

\* ------------------------------------------------------------- requests
\* Slice counts a client may send.
SliceInputs == { -1, 0, 5, 6, 7, 8, 99 }

\* start_thz values a client may send: every multiple of 3.125 GHz within
\* MaxStartIdx steps of zero and of 191.35 THz.
StartGrain == STEP_6_25 \div 2

CBandStart == 191350 * 1000

\* Starts of the 6-slice bands centred on 80 THz and on 3.2 THz.
TieStarts == { 80 * Million - 37500, 3200 * 1000 - 37500 }

StartInputs ==
    { i * StartGrain : i \in -MaxStartIdx..MaxStartIdx } \cup
    { CBandStart + i * StartGrain : i \in -MaxStartIdx..MaxStartIdx } \cup
    TieStarts

\* The ASCII decimal digits of the natural number n, at least `width` of
\* them.
RECURSIVE DigitsOf(_, _)
DigitsOf(n, width) ==
    IF n < 10 /\ width <= 1 THEN << Ord("0") + n >>
    ELSE DigitsOf(n \div 10, width - 1) \o << Ord("0") + (n % 10) >>

\* The text a client writes for v millionths: sign, integer part, ".", and
\* six fractional digits.
Render(v) ==
    (IF v < 0 THEN Text(<< "-" >>) ELSE <<>>)
      \o DigitsOf(Abs(v) \div Million, 1) \o Text(<< "." >>) \o DigitsOf(Abs(v) % Million, 6)

Alphabet == { Ord(c) : c \in { "0", "1", ".", "-", "n", "m" } }

\* Texts beyond the enumerated ones.  The last ones hold characters beyond
\* ASCII: line ends, U+00A0 and U+2003 (spaces), U+0660.. (Arabic-Indic
\* digits), U+FF10.. (fullwidth digits), U+0966.. (Devanagari digits),
\* U+06F0.. (extended Arabic-Indic digits) and U+00B2 (superscript two,
\* not a decimal digit).
SampleTexts ==
    { Text(<< "1","5","5","0",".","1","2"," ","n","m" >>),
      Text(<< "1","5","5","0",".","1","2" >>),
      Text(<< "-","1","5","5","0",".","1","2" >>),
      Text(<< "1","5","5","0",",","1","2","n","m" >>),
      Text(<< "1","5","5","0"," ","N","M" >>),
      Text(<< "-","1","5","5","0"," ","n","m" >>),
      Text(<< "1","0","0","0" >>),
      Text(<< "-","1","0","0","0" >>),
      Text(<< "9","9","9",".","9","9" >>),
      Text(<< "1","9","3",".","1","T","H","z" >>),
      Text(<< " ","1","9","3",".","1"," ","t","h","z"," " >>),
      Text(<< "1","9","3",".","1" >>),
      Text(<< "+","1","9","3",".","1" >>),
      Text(<< "1","9","3",".","1","0","6","2","5" >>),
      Text(<< "1","9","3",".","1","0","3","1","2","5" >>),
      Text(<< "f","=","1","9","3",".","4"," ","t","h","z" >>),
      Text(<< "1","9","3",".","4"," ","t","h","z"," ","1","5","5","0"," ","n","m" >>),
      Text(<< "n","m"," ","1","9","3",".","4"," ","t","h","z" >>),
      Text(<< "1","5","5","0","."," ","n","m" >>),
      Text(<< "a","b","c" >>),
      Text(<< "t","h","z" >>),
      Text(<< " "," " >>),
      Text(<< "-","5" >>),
      Text(<< "0"," ","n","m" >>),
      Text(<< "-","0" >>),
      Text(<< "0",".","0","0","6","2","5" >>),
      Text(<< "-","0",".","0","0","6","2","5" >>),
      Text(<< "1","9","3",".","3","5" >>),
      Text(<< "1","5","0","1",".","8","9","5","6","8" >>),
      Text(<< "3","2","7",".","0","4"," ","n","m" >>),
      Text(<< "8","0" >>),
      Text(<< "-","8","0"," ","t","h","z" >>),
      Text(<< "3",".","2" >>),
      Text(<< "1","6" >>),
      << 10 >> \o Text(<< "1","9","3",".","1" >>) \o << 13, 10 >>,
      << 160 >> \o Text(<< "8" >>) \o << 8195 >>,
      << 1635 >>,
      Text(<< "-" >>) \o << 1635 >>,
      Text(<< "1" >>) \o << 1632, 1632, 1632 >>,
      << 65297, 65301, 65301, 65296 >> \o Text(<< ".", "2", " ", "n", "m" >>),
      << 2407, 2415, 2409 >> \o Text(<< "," >>) \o << 1777 >> \o Text(<< " ", "T", "H", "Z" >>),
      << 178 >> }

\* Wavelengths around 1550 nm, 0.01 nm apart.
CBandNm == 1550 * Million

NmGrain == 10^4

CenterTexts ==
    SeqsUpTo(Alphabet, MaxLen) \cup SampleTexts
      \cup { Render(i * StartGrain) : i \in -MaxStartIdx..MaxStartIdx }
      \cup { Render(CBandStart + i * StartGrain) : i \in -MaxStartIdx..MaxStartIdx }
      \cup { Render(CBandNm + i * NmGrain) : i \in -MaxStartIdx..MaxStartIdx }
      \cup { Render(CBandNm + i * NmGrain) \o UnitNm : i \in -MaxStartIdx..MaxStartIdx }

\* The numbers the model computes with: at most 4 integer and 6 fractional
\* digits, magnitude at most MaxMag, and on the wavelength branch zero or
\* at least MinNm nm with a divisor the long division can take.
InModelRange(value) ==
    LET raw == strip(value)
        m2 == first_number(raw)
        val == Millionths(m2)
        nj == StripZeros(Abs(val), 0)
    IN m2.found =>
         /\ Len(m2.int) <= 4 /\ Len(m2.frac) <= 6
         /\ NatOf(m2.int) <= MaxMag
         /\ takes_nm_branch(unit_hint(raw), val) /\ val # 0 =>
              /\ Abs(val) >= MinNm * Million
              /\ nj[1] <= MaxDen

\* The texts of CenterTexts the model computes with.
ModelTexts == { value \in CenterTexts : InModelRange(value) }

NoReq == [op |-> "none"]

NoResp == [status |-> "none"]

\* ---------------------------------------------------------------- server
\* Module import: the table is loaded once (line 55); no request is being
\* served.  The snap probe (sx, sstep, sy) is idle here.
Init ==
    /\ \E dir \in DataDirs : nm2thz = try_load_mapping(dir)
    /\ loaded = nm2thz
    /\ req = NoReq
    /\ resp = NoResp
    /\ sx = 0 /\ sstep = STEP_6_25 /\ sy = <<>>

\* POST /calc_center
calc_center ==
    /\ req = NoReq
    /\ \E slices \in SliceInputs, value \in ModelTexts :
         /\ req' = [op |-> "calc_center", slices |-> slices, value |-> value]
         /\ resp' = CenterResponse(nm2thz, slices, value)
    /\ UNCHANGED << nm2thz, loaded, sx, sstep, sy >>

\* POST /calc_from_start
calc_from_start ==
    /\ req = NoReq
    /\ \E slices \in SliceInputs, start_thz \in StartInputs :
         /\ req' = [op |-> "calc_from_start", slices |-> slices, start_thz |-> start_thz]
         /\ resp' = StartResponse(nm2thz, slices, start_thz)
    /\ UNCHANGED << nm2thz, loaded, sx, sstep, sy >>

\* GET /healthz
health ==
    /\ req = NoReq
    /\ req' = [op |-> "healthz"]
    /\ resp' = [status |-> "ok", ok |-> TRUE]
    /\ UNCHANGED << nm2thz, loaded, sx, sstep, sy >>

\* The handler has returned (or raised): its locals are gone and the next
\* request can be served.
finish ==
    /\ req # NoReq
    /\ req' = NoReq
    /\ resp' = NoResp
    /\ UNCHANGED << nm2thz, loaded, sx, sstep, sy >>

Next == calc_center \/ calc_from_start \/ health \/ finish

Spec == Init /\ [][Next]_vars

\* ------------------------------------------------------------ snap alone
\* snap applied to a value sx (MHz), then to its own result: sy lists the
\* results so far.
SnapInit ==
    /\ nm2thz = <<>> /\ loaded = <<>> /\ req = NoReq /\ resp = NoResp
    /\ sx \in -MaxSnap..MaxSnap
    /\ sstep \in { STEP_6_25, STEP_12_5 }
    /\ sy = <<>>

snap_apply ==
    /\ Len(sy) < 2
    /\ sy' = Append(sy, snap(IF sy = <<>> THEN sx ELSE sy[Len(sy)], sstep))
    /\ UNCHANGED << nm2thz, loaded, req, resp, sx, sstep >>

SnapNext == snap_apply

SnapSpec == SnapInit /\ [][SnapNext]_vars

\* ================================================================ claims
Served == req.op \in { "calc_center", "calc_from_start" }

Succeeded == Served /\ resp.status = "ok"

ByCenter == req.op = "calc_center"

ByStart == req.op = "calc_from_start"

\* What the handler of request r answers when the table is `table`.
Response(table, r) ==
    IF r.op = "calc_center" THEN CenterResponse(table, r.slices, r.value)
    ELSE StartResponse(table, r.slices, r.start_thz)

\* The number the parser reads in the text of a by-center request.
NumberIn(value) == first_number(strip(value))

UnitIn(value) == unit_hint(strip(value))

\* C1 (as claimed): every returned band has start <= end and is exactly
\* slices x 12.5 GHz wide, whatever the centre or start, near zero and
\* negative values included.
C1_BandWidthExact ==
    Succeeded =>
      /\ resp.band[1] <= resp.band[2]
      /\ resp.band[2] - resp.band[1] = resp.slices * STEP_12_5

\* (start + end) / 2 of a band whose edges are 12.5 GHz multiples, written
\* so that the sum of two large edges is never formed.
Midpoint(band) == band[1] + (band[2] - band[1]) \div 2

\* C2 (as claimed): the returned centre is (start + end) / 2 of the
\* returned band snapped to the 6.25 GHz grid, for both calculators.
C2_CenterIsSnappedMidpoint ==
    Succeeded =>
      resp.center_thz = q(snap(Midpoint(resp.band), STEP_6_25))

\* The nominal edges centre -/+ width/2 of a by-center result, before they
\* are snapped to the 12.5 GHz grid.
NominalStart == resp.center_thz - resp.width_ghz \div 2

NominalEnd == resp.center_thz + resp.width_ghz \div 2

\* Whether the nominal edges already lie on the 12.5 GHz grid; if not, both
\* are odd multiples of 6.25 GHz, which snap rounds away from zero.
NominalEdgesOnGrid == NominalStart % STEP_12_5 = 0

SnappedMidpoint == q(snap(Midpoint(resp.band), STEP_6_25))

\* C2 (amended): the returned centre is the snapped midpoint of the
\* returned band for every by-start result.  A by-center result returns the
\* parsed centre: with nominal edges on the 12.5 GHz grid the band is the
\* nominal one and the centre is its snapped midpoint; with both nominal
\* edges above zero the band lies 6.25 GHz higher and its snapped midpoint
\* is the centre + 6.25 GHz; with both below zero the band lies 6.25 GHz
\* lower and its snapped midpoint is the centre - 6.25 GHz; with zero
\* between them the band is 6.25 GHz longer at each end and the centre is
\* its snapped midpoint.
C2_CenterAgainstSnappedMidpoint ==
    /\ Succeeded /\ ByStart => resp.center_thz = SnappedMidpoint
    /\ Succeeded /\ ByCenter =>
         IF NominalEdgesOnGrid
         THEN /\ resp.band = << NominalStart, NominalEnd >>
              /\ resp.center_thz = SnappedMidpoint
         ELSE IF NominalStart > 0
         THEN /\ resp.band = << NominalStart + STEP_6_25, NominalEnd + STEP_6_25 >>
              /\ SnappedMidpoint = resp.center_thz + STEP_6_25
         ELSE IF NominalEnd < 0
         THEN /\ resp.band = << NominalStart - STEP_6_25, NominalEnd - STEP_6_25 >>
              /\ SnappedMidpoint = resp.center_thz - STEP_6_25
         ELSE /\ resp.band = << NominalStart - STEP_6_25, NominalEnd + STEP_6_25 >>
              /\ resp.center_thz = SnappedMidpoint

\* A by-center result for 6 slices around 193.10625 THz: the band returned
\* is [193.075, 193.15], whose midpoint is 193.1125 THz.
C2_Witness ==
    /\ Succeeded /\ ByCenter /\ ~NominalEdgesOnGrid
    /\ resp.slices = 6
    /\ resp.center_thz = 193106250
    /\ resp.band = << 193075000, 193150000 >>

\* C3: both band edges are multiples of 12.5 GHz and the centre is a
\* multiple of 6.25 GHz, with or without a lookup table.
C3_OutputsOnGrid ==
    Succeeded =>
      /\ resp.band[1] % STEP_12_5 = 0
      /\ resp.band[2] % STEP_12_5 = 0
      /\ resp.center_thz % STEP_6_25 = 0

\* A by-center result whose centre came from a table frequency (193.414
\* THz) that is not on the grid.
C3_Witness ==
    /\ Succeeded /\ ByCenter
    /\ nm2thz # <<>>
    /\ UnitIn(req.value) = "nm"
    /\ \E i \in 1..Len(nm2thz) : nm2thz[i][2] % STEP_6_25 # 0
    /\ resp.center_thz = 193412500

\* The wavelength branch as the claim has it: by magnitude.
ClaimedNmByMagnitude(value) ==
    \/ UnitIn(value) = "nm"
    \/ UnitIn(value) = NoUnit /\ NatOf(NumberIn(value).int) >= 1000

\* The wavelength branch by signed value: a negative number is never >= 1000.
ClaimedNmBySignedValue(value) ==
    \/ UnitIn(value) = "nm"
    \/ UnitIn(value) = NoUnit /\ ~NumberIn(value).neg /\ NatOf(NumberIn(value).int) >= 1000

\* The answer to the by-center request in req when its number is read as a
\* wavelength (asNm) or directly as THz.
AnswerReading(asNm) ==
    LET val == Millionths(NumberIn(req.value))
    IN BandAround(nm2thz, IF req.slices = 7 THEN 7 ELSE 6,
                  IF asNm THEN nm_to_thz(nm2thz, val)
                  ELSE Returned(q(snap(val, STEP_6_25))))

\* C4 (as claimed): the number is read as a wavelength exactly when the
\* first unit token is "nm", or there is no unit token and its magnitude is
\* >= 1000, whatever its sign.
C4_MagnitudeSelectsNm ==
    ByCenter /\ NumberIn(req.value).found =>
      resp = AnswerReading(ClaimedNmByMagnitude(req.value))

Text_1550_12 == Text(<< "1","5","5","0",".","1","2" >>)

Text_1550_12_nm == Text(<< "1","5","5","0",".","1","2"," ","n","m" >>)

Text_minus_1550_12 == Text(<< "-","1","5","5","0",".","1","2" >>)

\* C4 (amended): the number is read as a wavelength exactly when the first
\* unit token is "nm", or there is no unit token and the signed number is
\* >= 1000; a unit-less negative number is read as THz.  "1550.12" and
\* "1550.12 nm" get the same answer.
C4_SignedValueSelectsNm ==
    /\ ByCenter /\ NumberIn(req.value).found =>
         resp = AnswerReading(ClaimedNmBySignedValue(req.value))
    /\ ByCenter /\ req.value = Text_1550_12 =>
         resp = CenterResponse(nm2thz, req.slices, Text_1550_12_nm)

\* "-1550.12" answered as the frequency -1550.11875 THz.
C4_Witness ==
    /\ Succeeded /\ ByCenter
    /\ req.value = Text_minus_1550_12
    /\ resp.center_thz = -1550118750

\* C5 (as claimed): a by-start request with start_thz <= 0 and a by-center
\* request whose text denotes a zero or negative number end in an error and
\* return no band.
C5_NonPositiveRejected ==
    /\ ByStart /\ req.start_thz <= 0 => resp.status = "error"
    /\ ByCenter /\ NumberIn(req.value).found /\ Millionths(NumberIn(req.value)) <= 0 =>
         resp.status = "error"

\* The response and the one the same request gets with an empty table both
\* succeed, with the same band and width_ghz.
SameBandWithoutTable ==
    LET bare == Response(<<>>, req)
    IN bare.status = "ok" =>
         /\ resp.band = bare.band
         /\ resp.width_ghz = bare.width_ghz

C7_SliceCoercion ==
    /\ Succeeded /\ req.slices = 7 => resp.slices = 7 /\ resp.width_ghz = 87500
    /\ Succeeded /\ req.slices # 7 => resp.slices = 6 /\ resp.width_ghz = 75000
    /\ Served /\ req.slices # 7 => resp = Response(nm2thz, [req EXCEPT !.slices = 6])

\* 99 slices requested, 6 answered.
C7_Witness ==
    /\ Succeeded /\ req.slices = 99
    /\ resp.slices = 6 /\ resp.width_ghz = 75000
    /\ resp.band[2] - resp.band[1] = 75000

NoDigitIn(value) == \A i \in 1..Len(value) : ~IsDigit(value[i])

\* C8: a by-center request whose text has no decimal number ends in the
\* illegal-input error raised by the parser, never in a result.
C8_NoNumberRaises ==
    ByCenter /\ NoDigitIn(req.value) =>
      resp = [status |-> "error", error |-> "ValueError", raised_in |-> "parse_center_any"]

\* "abc" refused while a table is loaded.
C8_Witness ==
    /\ ByCenter /\ req.value = Text(<< "a", "b", "c" >>)
    /\ resp.status = "error"
    /\ nm2thz # <<>>

\* C9: snap applied to its own result changes nothing, for both steps and
\* every value, ties and negative values included.
C9_SnapIdempotent == Len(sy) = 2 => sy[2] = sy[1]

\* -0.003125 THz, half a 6.25 GHz step below zero, snapped twice.
C9_Witness ==
    /\ Len(sy) = 2
    /\ sx = -3125 /\ sstep = STEP_6_25
    /\ sy[1] = -6250

IsSortedByNm(table) ==
    \A i \in 1..Len(table) : \A j \in 1..Len(table) : i < j => table[i][1] <= table[j][1]

\* C10: in every reachable state the table is sorted by wavelength and is
\* the table built at startup, and the response to a request is the one the
\* startup table gives it.
C10_TableFixed ==
    /\ nm2thz = loaded
    /\ IsSortedByNm(nm2thz)
    /\ Served => resp = Response(loaded, req)

\* A failed request with a two-row table in place.
C10_Witness ==
    /\ Served /\ resp.status = "error"
    /\ Len(nm2thz) = 2
    /\ nm2thz[1][1] < nm2thz[2][1]
    /\ nm2thz = loaded

====
